---- MODULE Spec2Model ----
(***************************************************************************)
(* Model of the trade journal (src/app/journal/page.tsx, JournalPage) and  *)
(* of the prop-firm dashboard (src/app/page.tsx, Home).                    *)
(*                                                                         *)
(* Encoding of JavaScript values                                           *)
(*   - a date string "YYYY-MM-DD" is its day number (a positive integer);  *)
(*     a string Date cannot parse (the cleared date input gives "") is     *)
(*     InvalidDate;                                                        *)
(*   - instants (Date.getTime()) are counted in hours instead of           *)
(*     milliseconds; NaN is the value NaN below, and every operation on    *)
(*     instants treats it as IEEE-754 does (comparisons false, Number.     *)
(*     isFinite false, a NaN comparator result read as +0 by sort);        *)
(*   - resultR, riskPercent and amounts are integers (whole R, whole       *)
(*     cents); a quotient is an exact rational <<numerator, denominator>>  *)
(*     in lowest terms with a positive denominator; a division by zero     *)
(*     gives <<0, 0>> (NaN) or <<1, 0>>, <<-1, 0>> (the infinities).       *)
(*   - a numeric field of a trade parsed from the store can also be Null   *)
(*     or Absent (undefined); NotANumber is the NaN of a sum or maximum.   *)
(***************************************************************************)
EXTENDS Integers, Sequences, FiniteSets, TLC

\* ------------------------------------------------------------------ bounds
MaxTrades == 1
MaxStatsTrades == 2
MaxOrderTrades == 3
MaxActiveFilters == 2
MaxAccounts == 2
MaxEvents == 2
MaxRows == 2
MaxHistoryRows == 3
MaxStoredTrades == 2
MaxStoreTrades == 2
MaxNewIds == 2
MaxViewTrades == 2
MaxRiskTrades == 2
MaxSizedAccounts == 3

\* ------------------------------------------------------- program constants
HoursPerDay == 24
InvalidDate == 0
NaN == -1

\* What a numeric field of a parsed trade can hold besides a number: null,
\* and undefined where the stored object has no such field. NotANumber is the
\* number NaN of an arithmetic result.
Null == 1000
Absent == 1001
NotANumber == 1002

INSTRUMENTS == {"XAUUSD", "EURUSD"}
MacroAlignments == {"With", "Against", "Neutral"}

DateFilterOptions == {"ALL", "7D", "30D", "90D"}
InstrumentFilterOptions == {"ALL"} \cup INSTRUMENTS
ResultFilterOptions == {"ALL", "WINS", "LOSSES"}
MacroFilterOptions == {"ALL"} \cup MacroAlignments
PlanFilterOptions == {"ALL", "YES", "NO"}

\* --------------------------------------------------------------- rationals
Abs(x) == IF x < 0 THEN -x ELSE x

RECURSIVE GCD(_, _)
GCD(a, b) == IF b = 0 THEN a ELSE GCD(b, a % b)

\* the JavaScript quotient n / d of two integers, d >= 0
Rat(n, d) ==
    IF d = 0 THEN <<(IF n < 0 THEN -1 ELSE IF n > 0 THEN 1 ELSE 0), 0>>
    ELSE LET g == GCD(Abs(n), d)
         IN  <<n \div g, d \div g>>

RatIsFinite(q) == q[2] # 0

Zero == Rat(0, 1)

RatOfInt(k) == Rat(k, 1)

\* the rational q times the integer k
RatTimes(q, k) == Rat(q[1] * k, q[2])

RatLeq(p, q) == p[1] * q[2] <= q[1] * p[2]

\* ------------------------------------------------------ JavaScript numbers
\* the conversion an arithmetic or relational operator applies to an operand
ToNumber(v) ==
    IF v = Null THEN 0 ELSE IF v = Absent THEN NotANumber ELSE v

IsNumber(v) == ToNumber(v) # NotANumber

\* a + b
Plus(a, b) ==
    IF IsNumber(a) /\ IsNumber(b) THEN ToNumber(a) + ToNumber(b)
    ELSE NotANumber

\* a > b, a >= b and a <= b: false when an operand converts to NaN
Greater(a, b) == IsNumber(a) /\ IsNumber(b) /\ ToNumber(a) > ToNumber(b)

GreaterEq(a, b) == IsNumber(a) /\ IsNumber(b) /\ ToNumber(a) >= ToNumber(b)

LessEq(a, b) == IsNumber(a) /\ IsNumber(b) /\ ToNumber(a) <= ToNumber(b)

\* Math.max(a, b)
MathMax(a, b) ==
    IF ~(IsNumber(a) /\ IsNumber(b)) THEN NotANumber
    ELSE IF ToNumber(a) >= ToNumber(b) THEN ToNumber(a) ELSE ToNumber(b)

\* n / d for a sum n and a count d: NaN / d is NaN
Divide(n, d) == IF IsNumber(n) THEN Rat(n, d) ELSE <<0, 0>>

\* ------------------------------------------------------ sequence utilities
Front(s) == SubSeq(s, 1, Len(s) - 1)

Last(s) == s[Len(s)]

\* all orderings of the elements of s
Orderings(s) ==
    { [i \in 1..Len(s) |-> s[p[i]]] : p \in Permutations(1..Len(s)) }


\* =========================================================================
\* Trade journal: src/app/journal/page.tsx, JournalPage
\* =========================================================================

VARIABLES
    trades,            \* useState<Trade[]>: the stored collection
    editingId,         \* useState<string | null>: 0 is null
    expandedTradeId,   \* useState<string | null>: 0 is null
    confirmDelete,     \* the deleteTrade call that window.confirm has answered
                       \* and that has not returned yet, <<>> when none
    nextId,            \* the identifiers crypto.randomUUID() has handed out
    dateFilter, instrumentFilter, resultFilter, macroFilter, planFilter,
    now,               \* the instant new Date() gave the last recomputation
    filteredTrades,    \* useMemo: the filtered and sorted table view
    storage,           \* localStorage: what is kept under STORAGE_KEY
    effectQueue,       \* useEffect callbacks committed and not yet run
    pendingUpdate      \* setTrades(...) calls of effects, waiting for a render

storeVars == <<storage, effectQueue, pendingUpdate>>

journalVars ==
    <<trades, editingId, expandedTradeId, confirmDelete, nextId, dateFilter,
      instrumentFilter, resultFilter, macroFilter, planFilter, now,
      filteredTrades, storeVars>>

\* Prop-firm dashboard: src/app/page.tsx, Home
VARIABLES
    rawEvents,         \* useState<any[]>(initialEvents)
    accounts,          \* useState<any[]>(initialAccounts)
    selectedFirm,      \* useState<string>("All")
    parsing,           \* the file Papa.parse is reading, <<>> when none
    consoleLog         \* the last message written to the console, "" if none

dashVars == <<rawEvents, accounts, selectedFirm, parsing, consoleLog>>

vars == <<journalVars, dashVars>>

\* ------------------------------------------------------- Date and ordering
\* new Date(dateStr).getTime()
getTime(date) == IF date = InvalidDate THEN NaN ELSE date * HoursPerDay

IsFinite(x) == x # NaN

Sign(x) == IF x < 0 THEN -1 ELSE IF x > 0 THEN 1 ELSE 0

\* the comparator "bd - ad" (newest first) as Array.prototype.sort reads it:
\* a NaN result is taken as +0
NewestFirst(a, b) ==
    LET ad == getTime(a.date)
        bd == getTime(b.date)
    IN  IF ad = NaN \/ bd = NaN THEN 0 ELSE Sign(bd - ad)

\* the comparator "ad - bd" (oldest first)
OldestFirst(a, b) ==
    LET ad == getTime(a.date)
        bd == getTime(b.date)
    IN  IF ad = NaN \/ bd = NaN THEN 0 ELSE Sign(ad - bd)

Compare(a, b, order) ==
    IF order = "newest" THEN NewestFirst(a, b) ELSE OldestFirst(a, b)

\* Array.prototype.sort is stable and gives the one sorted order when the
\* comparator is consistent. With an unparseable date it is not (the NaN
\* result makes that trade "equal" to two trades that are not equal to each
\* other), and ECMAScript leaves the order to the engine. The two engines'
\* algorithms for an array this short are modelled: the insertion sort of
\* SpiderMonkey and the run detection with binary insertion of V8.

\* insertion sort: x moves left past every element that compares greater
RECURSIVE InsertInOrder(_, _, _)
InsertInOrder(sorted, x, order) ==
    IF sorted = <<>> THEN <<x>>
    ELSE IF Compare(Last(sorted), x, order) > 0
         THEN Append(InsertInOrder(Front(sorted), x, order), Last(sorted))
         ELSE Append(sorted, x)

RECURSIVE InsertionSort(_, _)
InsertionSort(s, order) ==
    IF s = <<>> THEN <<>>
    ELSE InsertInOrder(InsertionSort(Front(s), order), Last(s), order)

Reverse(s) == [k \in 1..Len(s) |-> s[Len(s) + 1 - k]]

\* V8 CountAndMakeRun: the last index of the run that starts the array
RECURSIVE RunEnd(_, _, _, _)
RunEnd(s, idx, descending, order) ==
    IF idx = Len(s) THEN idx
    ELSE LET c == Compare(s[idx + 1], s[idx], order)
         IN  IF (descending /\ c >= 0) \/ (~descending /\ c < 0)
             THEN idx
             ELSE RunEnd(s, idx + 1, descending, order)

\* V8 BinaryInsertionSort: where the pivot goes in s[left..right-1]
RECURSIVE InsertionPoint(_, _, _, _, _)
InsertionPoint(s, pivot, left, right, order) ==
    IF left >= right THEN left
    ELSE LET mid == left + ((right - left) \div 2)
         IN  IF Compare(pivot, s[mid], order) < 0
             THEN InsertionPoint(s, pivot, left, mid, order)
             ELSE InsertionPoint(s, pivot, mid + 1, right, order)

RECURSIVE BinaryInsertionSort(_, _, _)
BinaryInsertionSort(s, start, order) ==
    IF start > Len(s) THEN s
    ELSE LET left == InsertionPoint(s, s[start], 1, start, order)
             moved == SubSeq(s, 1, left - 1) \o <<s[start]>>
                        \o SubSeq(s, left, start - 1)
                        \o SubSeq(s, start + 1, Len(s))
         IN  BinaryInsertionSort(moved, start + 1, order)

TimSort(s, order) ==
    IF Len(s) < 2 THEN s
    ELSE LET descending == Compare(s[2], s[1], order) < 0
             run == RunEnd(s, 2, descending, order)
             made == IF descending
                     THEN Reverse(SubSeq(s, 1, run)) \o SubSeq(s, run + 1, Len(s))
                     ELSE s
         IN  BinaryInsertionSort(made, run + 1, order)

\* Array.prototype.sort(comparefn): what the engines give
SortOutcomes(s, order) == {InsertionSort(s, order), TimSort(s, order)}

\* -------------------------------------------------------------- the filter
\* cutoff: <<>> is null
Cutoff(df, n) ==
    IF df = "7D" THEN <<n - 7 * HoursPerDay>>
    ELSE IF df = "30D" THEN <<n - 30 * HoursPerDay>>
    ELSE IF df = "90D" THEN <<n - 90 * HoursPerDay>>
    ELSE <<>>

\* mutant: the check written as !(tradeTime >= cutoff), which a NaN fails
DateExcludesNaN(t, cutoff) ==
    /\ cutoff # <<>>
    /\ LET tradeTime == getTime(t.date)
       IN  ~(IsFinite(tradeTime) /\ tradeTime >= cutoff[1])

\* the date check of the filter callback: TRUE when it returns false
DateExcludes(t, cutoff) ==
    /\ cutoff # <<>>
    /\ LET tradeTime == getTime(t.date)
       IN  IsFinite(tradeTime) /\ tradeTime < cutoff[1]

InstrumentExcludes(t, f) == f # "ALL" /\ t.instrument # f

\* mutant: LOSSES lets a breakeven trade through
ResultExcludesLossesKeepsZero(t, f) ==
    \/ f = "WINS" /\ LessEq(t.resultR, 0)
    \/ f = "LOSSES" /\ Greater(t.resultR, 0)

ResultExcludes(t, f) ==
    \/ f = "WINS" /\ LessEq(t.resultR, 0)
    \/ f = "LOSSES" /\ GreaterEq(t.resultR, 0)

MacroExcludes(t, f) == f # "ALL" /\ t.macroAlignment # f

PlanExcludes(t, f) ==
    \/ f = "YES" /\ ~t.followedPlan
    \/ f = "NO" /\ t.followedPlan

\* the callback of trades.filter
Keeps(t, cutoff, if, rf, mf, pf) ==
    IF DateExcludes(t, cutoff) THEN FALSE
    ELSE IF InstrumentExcludes(t, if) THEN FALSE
    ELSE IF ResultExcludes(t, rf) THEN FALSE
    ELSE IF MacroExcludes(t, mf) THEN FALSE
    ELSE IF PlanExcludes(t, pf) THEN FALSE
    ELSE TRUE

Filtered(ts, df, if, rf, mf, pf, n) ==
    SelectSeq(ts, LAMBDA t : Keeps(t, Cutoff(df, n), if, rf, mf, pf))

\* ------------------------------------------------------------ aggregations
\* ts.reduce((sum, t) => sum + t.resultR, 0)
RECURSIVE SumResultR(_)
SumResultR(ts) ==
    IF ts = <<>> THEN 0 ELSE Plus(SumResultR(Front(ts)), Last(ts).resultR)

\* ts.reduce((sum, t) => sum + t.riskPercent, 0)
RECURSIVE SumRisk(_)
SumRisk(ts) ==
    IF ts = <<>> THEN 0 ELSE Plus(SumRisk(Front(ts)), Last(ts).riskPercent)

\* ts.reduce((max, t) => Math.max(max, t.riskPercent), 0)
RECURSIVE MaxRiskOf(_)
MaxRiskOf(ts) ==
    IF ts = <<>> THEN 0
    ELSE MathMax(MaxRiskOf(Front(ts)), Last(ts).riskPercent)

\* mutant: the average without the empty-group guard
AvgResultRUnguarded(ts) == Divide(SumResultR(ts), Len(ts))

\* sum / count of a group, 0 for an empty group
AvgResultR(ts) ==
    IF Len(ts) = 0 THEN Zero ELSE Divide(SumResultR(ts), Len(ts))

\* mutant: a breakeven trade counted as a win
statsBreakevenWins(ft) ==
    IF Len(ft) = 0
    THEN [total |-> 0, winRate |-> Zero, avgR |-> Zero, totalR |-> 0]
    ELSE LET total == Len(ft)
             wins == Len(SelectSeq(ft, LAMBDA t : GreaterEq(t.resultR, 0)))
             sumR == SumResultR(ft)
         IN  [total |-> total, winRate |-> RatTimes(Rat(wins, total), 100),
              avgR |-> Divide(sumR, total), totalR |-> sumR]

stats(ft) ==
    IF Len(ft) = 0
    THEN [total |-> 0, winRate |-> Zero, avgR |-> Zero, totalR |-> 0]
    ELSE LET total == Len(ft)
             wins == Len(SelectSeq(ft, LAMBDA t : Greater(t.resultR, 0)))
             sumR == SumResultR(ft)
             winRate == RatTimes(Rat(wins, total), 100)
             avgR == Divide(sumR, total)
         IN  [total |-> total, winRate |-> winRate, avgR |-> avgR,
              totalR |-> sumR]

\* mutant: a Neutral trade counted with the With trades
macroStatsNeutralWith(ft) ==
    LET withMacro == SelectSeq(ft, LAMBDA t : t.macroAlignment # "Against")
        againstMacro == SelectSeq(ft, LAMBDA t : t.macroAlignment = "Against")
    IN  [withCount |-> Len(withMacro), againstCount |-> Len(againstMacro),
         avgWith |-> AvgResultR(withMacro),
         avgAgainst |-> AvgResultR(againstMacro)]

macroStats(ft) ==
    LET withMacro == SelectSeq(ft, LAMBDA t : t.macroAlignment = "With")
        againstMacro == SelectSeq(ft, LAMBDA t : t.macroAlignment = "Against")
    IN  [withCount |-> Len(withMacro), againstCount |-> Len(againstMacro),
         avgWith |-> AvgResultR(withMacro),
         avgAgainst |-> AvgResultR(againstMacro)]

\* mutant: the broke-plan group taken without the negation
planStatsNoNegation(ft) ==
    LET planYes == SelectSeq(ft, LAMBDA t : t.followedPlan)
        planNo == SelectSeq(ft, LAMBDA t : t.followedPlan)
    IN  [yesCount |-> Len(planYes), noCount |-> Len(planNo),
         avgYes |-> AvgResultR(planYes), avgNo |-> AvgResultR(planNo)]

planStats(ft) ==
    LET planYes == SelectSeq(ft, LAMBDA t : t.followedPlan)
        planNo == SelectSeq(ft, LAMBDA t : ~t.followedPlan)
    IN  [yesCount |-> Len(planYes), noCount |-> Len(planNo),
         avgYes |-> AvgResultR(planYes), avgNo |-> AvgResultR(planNo)]

riskStats(ft) ==
    IF Len(ft) = 0
    THEN [avgRisk |-> Zero, maxRisk |-> 0]
    ELSE [avgRisk |-> Divide(SumRisk(ft), Len(ft)), maxRisk |-> MaxRiskOf(ft)]

\* sorted.map(t => { cumR += t.resultR; return {date, cumR} })
EquityPoints(sorted) ==
    [k \in 1..Len(sorted) |->
        [date |-> sorted[k].date, cumR |-> SumResultR(SubSeq(sorted, 1, k))]]

\* the equity curves [...filteredTrades].sort(oldest first) can give
equityData(ft) ==
    IF Len(ft) = 0 THEN {<<>>}
    ELSE { EquityPoints(sorted) : sorted \in SortOutcomes(ft, "oldest") }

\* ------------------------------------------------------------- persistence
\* What localStorage holds under STORAGE_KEY is a record: kind "absent" (no
\* item), "empty" (the empty string), "invalid" (text JSON.parse throws on),
\* "nonarray" (JSON text of a value that is not an array) or "array" (JSON
\* text of an array), and value, the elements of the array (<<>> otherwise).
Blob(kind, value) == [kind |-> kind, value |-> value]

\* JSON.stringify(trades): every field the page writes into a trade is a
\* string, a finite number or a boolean, null is written as null and a field
\* that is undefined is left out, so the text gives the trades back
Stringify(ts) == Blob("array", ts)

\* mutant: whatever parses is returned
loadTradesAnyJson(blob) ==
    IF blob.kind \in {"absent", "empty", "invalid"} THEN <<>>
    ELSE IF blob.kind = "nonarray" THEN <<blob.kind>>
    ELSE blob.value

\* loadTrades(): [] for no item, for "", for a JSON.parse exception and for
\* a parsed value that is not an array
loadTrades(blob) ==
    IF blob.kind \in {"absent", "empty"} THEN <<>>          \* !raw
    ELSE IF blob.kind = "invalid" THEN <<>>                 \* catch
    ELSE IF blob.kind = "array" THEN blob.value ELSE <<>>   \* Array.isArray

\* an effect waits with the trades of the render that committed it
Effect(name, closure) == [effect |-> name, closure |-> closure]

\* the effects the render of a changed trades value commits
SaveEffectOf(ts) == <<Effect("save", ts)>>

\* React runs the committed effects before it handles the next event, and a
\* handler waiting in window.confirm blocks the page
Idle == effectQueue = <<>> /\ pendingUpdate = <<>> /\ confirmDelete = <<>>

\* ----------------------------------------------------------------- actions
\* What the form can hold at submit. Field values: the cleared date input
\* and two days, both instruments, a loss, a breakeven and a win, the three
\* alignments, both plan flags, two risk sizes. The rows are a selection of
\* the product of these in which every pair of values of two fields occurs.
FormDates == <<InvalidDate, 17, 100>>
FormResults == <<-1, 0, 2>>
FormMacros == <<"With", "Against", "Neutral">>
FormInstruments == <<"EURUSD", "XAUUSD">>
FormPlans == <<TRUE, FALSE>>
FormRisks == <<1, 2>>

FormRow(d, r, i) ==
    [date |-> FormDates[d + 1],
     resultR |-> FormResults[r + 1],
     macroAlignment |-> FormMacros[((d + r) % 3) + 1],
     instrument |-> FormInstruments[i + 1],
     followedPlan |-> FormPlans[((i + d + r) % 2) + 1],
     riskPercent |-> FormRisks[((i + r) % 2) + 1]]

FormInputs == { FormRow(d, r, i) : d \in 0..2, r \in 0..2, i \in 0..1 }

\* forms that differ in date, result and plan flag only
OrderInputs ==
    { [date |-> FormDates[d + 1], resultR |-> FormResults[r + 1],
       macroAlignment |-> "With", instrument |-> "EURUSD",
       followedPlan |-> FormPlans[((d + r) % 2) + 1], riskPercent |-> 1] :
          d \in 0..2, r \in 0..2 }

\* instants new Date() can give: day 107 at 00:00 and at 01:00. At the first
\* day 100 lies on the 7-day cutoff and day 17 on the 90-day cutoff; at the
\* second both lie just before them.
Clock == {2568, 2569}

\* mutant: every new trade is given the same identifier
NewTradeSameId(id, form, n) ==
    [id |-> 1, createdAt |-> n, date |-> form.date,
     instrument |-> form.instrument, resultR |-> form.resultR,
     macroAlignment |-> form.macroAlignment,
     followedPlan |-> form.followedPlan, riskPercent |-> form.riskPercent]

\* { id: crypto.randomUUID(), createdAt: Date.now(), ...base }
NewTrade(id, form, n) ==
    [id |-> id, createdAt |-> n, date |-> form.date,
     instrument |-> form.instrument, resultR |-> form.resultR,
     macroAlignment |-> form.macroAlignment,
     followedPlan |-> form.followedPlan, riskPercent |-> form.riskPercent]

\* mutant: the edited trade built as a new trade, its creation time lost
EditedTradeRestamped(t, form) == NewTrade(t.id, form, 0)

\* { ...t, ...base }
EditedTrade(t, form) ==
    [t EXCEPT !.date = form.date, !.instrument = form.instrument,
              !.resultR = form.resultR,
              !.macroAlignment = form.macroAlignment,
              !.followedPlan = form.followedPlan,
              !.riskPercent = form.riskPercent]

\* The arrays after filteredTrades is computed: trades.filter(...) puts the
\* kept trades into a new array, filtered.sort(...) reorders that array, and
\* trades holds what it held.
ViewArrays(ts, df, if, rf, mf, pf, n) ==
    { [trades |-> ts, filtered |-> sorted] :
        sorted \in SortOutcomes(Filtered(ts, df, if, rf, mf, pf, n),
                                "newest") }

\* the re-render after a state change, trades set to ts: filteredTrades is
\* recomputed with the instant n that new Date() gives then
Recompute(ts, n) ==
    /\ now' = n
    /\ \E arrays \in ViewArrays(ts, dateFilter', instrumentFilter',
                                 resultFilter', macroFilter', planFilter', n) :
          /\ trades' = arrays.trades
          /\ filteredTrades' = arrays.filtered

ActiveFilters(df, if, rf, mf, pf) ==
    Cardinality({k \in 1..5 : <<df, if, rf, mf, pf>>[k] # "ALL"})

setDateFilter(v, n) ==
    /\ Idle
    /\ v # dateFilter
    /\ ActiveFilters(v, instrumentFilter, resultFilter, macroFilter,
                     planFilter) <= MaxActiveFilters
    /\ dateFilter' = v
    /\ UNCHANGED <<editingId, expandedTradeId, confirmDelete, nextId, instrumentFilter, resultFilter,
                   macroFilter, planFilter>>
    /\ UNCHANGED storeVars
    /\ UNCHANGED dashVars
    /\ Recompute(trades, n)

setInstrumentFilter(v, n) ==
    /\ Idle
    /\ v # instrumentFilter
    /\ ActiveFilters(dateFilter, v, resultFilter, macroFilter, planFilter)
         <= MaxActiveFilters
    /\ instrumentFilter' = v
    /\ UNCHANGED <<editingId, expandedTradeId, confirmDelete, nextId, dateFilter, resultFilter,
                   macroFilter, planFilter>>
    /\ UNCHANGED storeVars
    /\ UNCHANGED dashVars
    /\ Recompute(trades, n)

setResultFilter(v, n) ==
    /\ Idle
    /\ v # resultFilter
    /\ ActiveFilters(dateFilter, instrumentFilter, v, macroFilter, planFilter)
         <= MaxActiveFilters
    /\ resultFilter' = v
    /\ UNCHANGED <<editingId, expandedTradeId, confirmDelete, nextId, dateFilter, instrumentFilter,
                   macroFilter, planFilter>>
    /\ UNCHANGED storeVars
    /\ UNCHANGED dashVars
    /\ Recompute(trades, n)

setMacroFilter(v, n) ==
    /\ Idle
    /\ v # macroFilter
    /\ ActiveFilters(dateFilter, instrumentFilter, resultFilter, v, planFilter)
         <= MaxActiveFilters
    /\ macroFilter' = v
    /\ UNCHANGED <<editingId, expandedTradeId, confirmDelete, nextId, dateFilter, instrumentFilter,
                   resultFilter, planFilter>>
    /\ UNCHANGED storeVars
    /\ UNCHANGED dashVars
    /\ Recompute(trades, n)

setPlanFilter(v, n) ==
    /\ Idle
    /\ v # planFilter
    /\ ActiveFilters(dateFilter, instrumentFilter, resultFilter, macroFilter, v)
         <= MaxActiveFilters
    /\ planFilter' = v
    /\ UNCHANGED <<editingId, expandedTradeId, confirmDelete, nextId, dateFilter, instrumentFilter,
                   resultFilter, macroFilter>>
    /\ UNCHANGED storeVars
    /\ UNCHANGED dashVars
    /\ Recompute(trades, n)

handleSubmit(form, n) ==
    /\ Idle
    /\ UNCHANGED <<expandedTradeId, confirmDelete, dateFilter,
                   instrumentFilter, resultFilter, macroFilter, planFilter,
                   storage, pendingUpdate>>
    /\ IF editingId # 0
       THEN /\ Recompute([k \in 1..Len(trades) |->
                             IF trades[k].id = editingId
                             THEN EditedTrade(trades[k], form)
                             ELSE trades[k]], n)
            /\ nextId' = nextId
       ELSE /\ Recompute(<<NewTrade(nextId, form, n)>> \o trades, n)
            /\ nextId' = nextId + 1
    /\ editingId' = 0
    /\ effectQueue' = SaveEffectOf(trades')
    /\ UNCHANGED dashVars

\* startEdit(trade), from a row of the table
startEdit(id) ==
    /\ Idle
    /\ editingId' = id
    /\ UNCHANGED <<trades, expandedTradeId, confirmDelete, nextId, dateFilter, instrumentFilter, resultFilter,
                   macroFilter, planFilter, now, filteredTrades>>
    /\ UNCHANGED storeVars
    /\ UNCHANGED dashVars

\* the More / Hide button of a row of the table
toggleExpanded(id) ==
    /\ Idle
    /\ expandedTradeId' = IF expandedTradeId = id THEN 0 ELSE id
    /\ UNCHANGED <<trades, editingId, confirmDelete, nextId, dateFilter,
                   instrumentFilter, resultFilter, macroFilter, planFilter,
                   now, filteredTrades>>
    /\ UNCHANGED storeVars
    /\ UNCHANGED dashVars

\* deleteTrade(id), from a row of the table, up to the return of
\* window.confirm("Delete this trade?"): confirmed is what it returns
deleteTrade(id, confirmed) ==
    /\ Idle
    /\ confirmDelete' = <<[id |-> id, confirmDelete |-> confirmed]>>
    /\ UNCHANGED <<trades, editingId, expandedTradeId, nextId, dateFilter,
                   instrumentFilter, resultFilter, macroFilter, planFilter,
                   now, filteredTrades>>
    /\ UNCHANGED storeVars
    /\ UNCHANGED dashVars

\* mutant: the answer of the prompt is not looked at
ReturnsEarlyNever(call) == FALSE

\* if (!confirmDelete) return
ReturnsEarly(call) == ~call.confirmDelete

\* mutant: the identifier is kept whatever trade is deleted
KeptWhenDeleted(current, id) == current

\* (current) => (current === id ? null : current)
NullIfDeleted(current, id) == IF current = id THEN 0 ELSE current

\* deleteTrade(id) from the return of window.confirm on
deleteTradeAnswered(n) ==
    /\ confirmDelete # <<>>
    /\ confirmDelete' = <<>>
    /\ LET id == confirmDelete[1].id
       IN  IF ReturnsEarly(confirmDelete[1])
           THEN UNCHANGED <<trades, editingId, expandedTradeId, nextId,
                            dateFilter, instrumentFilter, resultFilter,
                            macroFilter, planFilter, now, filteredTrades,
                            storeVars>>
           ELSE /\ editingId' = NullIfDeleted(editingId, id)
                /\ expandedTradeId' = NullIfDeleted(expandedTradeId, id)
                /\ UNCHANGED <<nextId, dateFilter, instrumentFilter,
                               resultFilter, macroFilter, planFilter, storage,
                               pendingUpdate>>
                /\ Recompute(SelectSeq(trades, LAMBDA t : t.id # id), n)
                /\ effectQueue' = SaveEffectOf(trades')
    /\ UNCHANGED dashVars

\* useEffect(() => { setTrades(loadTrades()) }, [])
loadEffect ==
    /\ effectQueue # <<>>
    /\ effectQueue[1].effect = "load"
    /\ pendingUpdate' = Append(pendingUpdate, loadTrades(storage))
    /\ effectQueue' = Tail(effectQueue)
    /\ UNCHANGED <<trades, editingId, expandedTradeId, confirmDelete, nextId, dateFilter, instrumentFilter,
                   resultFilter, macroFilter, planFilter, now, filteredTrades,
                   storage>>
    /\ UNCHANGED dashVars

\* mutant: the save effect writes nothing
WrittenNothing(blob, ts) == blob

\* saveTrades(trades): localStorage.setItem(STORAGE_KEY, JSON.stringify(trades))
saveTrades(blob, ts) == Stringify(ts)

\* useEffect(() => { saveTrades(trades) }, [trades])
saveEffect ==
    /\ effectQueue # <<>>
    /\ effectQueue[1].effect = "save"
    /\ storage' = saveTrades(storage, effectQueue[1].closure)
    /\ effectQueue' = Tail(effectQueue)
    /\ UNCHANGED <<trades, editingId, expandedTradeId, confirmDelete, nextId, dateFilter, instrumentFilter,
                   resultFilter, macroFilter, planFilter, now, filteredTrades,
                   pendingUpdate>>
    /\ UNCHANGED dashVars

\* the render after the effects of a commit have run: the queued setTrades
\* calls are applied in order, the last value stays, and the save effect is
\* committed again because trades is a new array
render(n) ==
    /\ effectQueue = <<>>
    /\ pendingUpdate # <<>>
    /\ UNCHANGED <<editingId, expandedTradeId, confirmDelete, nextId, dateFilter, instrumentFilter,
                   resultFilter, macroFilter, planFilter, storage>>
    /\ Recompute(pendingUpdate[Len(pendingUpdate)], n)
    /\ pendingUpdate' = <<>>
    /\ effectQueue' = SaveEffectOf(trades')
    /\ UNCHANGED dashVars

\* =========================================================================
\* Prop-firm dashboard: src/app/page.tsx, Home
\* =========================================================================
\* A date string is the sequence of its parts between "-", each part a
\* string: "2025-09-22" is <<"2025", "09", "22">> and "" is <<"">>.
\* Amounts are whole cents.

Undefined == "undefined"

EmptyString == <<"">>

Event(date, propFirm, type, amount) ==
    [date |-> date, propFirm |-> propFirm, type |-> type, amount |-> amount]

initialEvents ==
    << Event(<<"2025", "09", "22">>, "FTMO", "fee", 52220),
       Event(<<"2025", "09", "09">>, "FTMO", "fee", 127964),
       Event(<<"2025", "09", "10">>, "5ERS", "fee", 50500),
       Event(<<"2025", "07", "10">>, "5ERS", "fee", 54500),
       Event(<<"2025", "02", "03">>, "5ERS", "fee", 16500),
       Event(<<"2025", "01", "01">>, "5ERS", "fee", 44050),
       Event(<<"2025", "08", "21">>, "5ERS", "payout", 423300),
       Event(<<"2025", "09", "25">>, "5ERS", "payout", 418400),
       Event(<<"2025", "08", "22">>, "E8", "fee", 47100),
       Event(<<"2025", "08", "25">>, "THINK CAPITAL", "fee", 52300),
       Event(<<"2025", "05", "05">>, "BRIGHTFUNDED", "fee", 47351),
       Event(<<"2025", "11", "28">>, "BRIGHTFUNDED", "fee", 40198) >>

Account(id, propFirm, size, type, stage, isActive) ==
    [id |-> id, propFirm |-> propFirm, size |-> size, type |-> type,
     stage |-> stage, isActive |-> isActive]

initialAccounts ==
    << Account("FTMO-100-1", "FTMO", 100000, "evaluation", "phase1", TRUE),
       Account("FTMO-200-2", "FTMO", 100000, "evaluation", "phase1", TRUE),
       Account("ACG-200-1", "5ERS", 200000, "evaluation", "phase1", TRUE),
       Account("BrightFunded-100-1", "BrightFunded", 100000, "evaluation",
               "phase1", TRUE) >>

\* nums.reduce((a, b) => a + b, 0)
RECURSIVE sum(_)
sum(nums) == IF nums = <<>> THEN 0 ELSE sum(Front(nums)) + Last(nums)

\* s.map(f) for the field amount
Amounts(es) == [k \in 1..Len(es) |-> es[k].amount]

\* dateStr.split("-") gives the parts; a missing part reads as undefined
getMonthKey(dateStr) ==
    <<dateStr[1], IF Len(dateStr) >= 2 THEN dateStr[2] ELSE Undefined>>

\* ---------------------------------------------------------- firm selection
firms ==
    { f \in { rawEvents[k].propFirm : k \in 1..Len(rawEvents) }
              \cup { accounts[k].propFirm : k \in 1..Len(accounts) } : f # "" }

events ==
    IF selectedFirm = "All" THEN rawEvents
    ELSE SelectSeq(rawEvents, LAMBDA e : e.propFirm = selectedFirm)

filteredAccounts ==
    IF selectedFirm = "All" THEN accounts
    ELSE SelectSeq(accounts, LAMBDA a : a.propFirm = selectedFirm)

\* ------------------------------------------------------------ event totals
payoutEvents == SelectSeq(events, LAMBDA e : e.type = "payout")

\* mutant: purchases counted with the fees
feeEventsWithPurchases ==
    SelectSeq(events, LAMBDA e : e.type \in {"fee", "purchase"})

feeEvents == SelectSeq(events, LAMBDA e : e.type = "fee")

totalPayouts == sum(Amounts(payoutEvents))

totalFees == sum(Amounts(feeEvents))

currentPnl == totalPayouts - totalFees

\* ------------------------------------------------------------------ funnel
\* mutant: the funnel counted over accounts of every type
evalAccountsAllTypes == filteredAccounts

evalAccounts == SelectSeq(filteredAccounts, LAMBDA a : a.type = "evaluation")

totalEvalAccounts == Len(evalAccounts)

phase1PassedCount ==
    Len(SelectSeq(evalAccounts,
                  LAMBDA a : a.stage \in {"phase2", "funded", "payout"}))

phase2PassedCount ==
    Len(SelectSeq(evalAccounts, LAMBDA a : a.stage \in {"funded", "payout"}))

fundedReachedCount ==
    Len(SelectSeq(evalAccounts, LAMBDA a : a.stage \in {"funded", "payout"}))

\* mutant: the payout stage counted over every account of the firm
payoutReachedCountAllTypes ==
    Len(SelectSeq(filteredAccounts, LAMBDA a : a.stage = "payout"))

payoutReachedCount ==
    Len(SelectSeq(evalAccounts, LAMBDA a : a.stage = "payout"))

toPercent(num, denom) ==
    IF denom = 0 THEN Zero ELSE RatTimes(Rat(num, denom), 100)

phase1PassRate == toPercent(phase1PassedCount, totalEvalAccounts)

phase2PassRate == toPercent(phase2PassedCount, totalEvalAccounts)

fundedRate == toPercent(fundedReachedCount, totalEvalAccounts)

payoutRate == toPercent(payoutReachedCount, totalEvalAccounts)

\* ------------------------------------------------------ account size donut
purchasedAccounts ==
    SelectSeq(filteredAccounts, LAMBDA a : a.type = "evaluation")

totalAccounts == Len(purchasedAccounts)

\* `$${a.size / 1000}K`: the label is the quotient as JavaScript prints it,
\* kept here as the quotient
SizeLabel(a) == Rat(a.size, 1000)

\* mutant: the map keeps the first account of a label only
SizeMapSetFirstOnly(map, label) ==
    IF \E k \in 1..Len(map) : map[k].name = label
    THEN map
    ELSE Append(map, [name |-> label, count |-> 1])

\* sizeMap.set(label, (sizeMap.get(label) ?? 0) + 1): a Map keeps its keys in
\* the order of their first set
SizeMapSet(map, label) ==
    IF \E k \in 1..Len(map) : map[k].name = label
    THEN [k \in 1..Len(map) |->
            IF map[k].name = label
            THEN [name |-> label, count |-> map[k].count + 1]
            ELSE map[k]]
    ELSE Append(map, [name |-> label, count |-> 1])

\* the Map after purchasedAccounts.forEach, as the sequence of its entries
RECURSIVE SizeMapOf(_)
SizeMapOf(as) ==
    IF as = <<>> THEN <<>>
    ELSE SizeMapSet(SizeMapOf(Front(as)), SizeLabel(Last(as)))

sizeMap == SizeMapOf(purchasedAccounts)

accountSizeDonut ==
    [k \in 1..Len(sizeMap) |->
        [name |-> sizeMap[k].name,
         count |-> sizeMap[k].count,
         percentage |->
            IF totalAccounts = 0 THEN Zero
            ELSE RatTimes(Rat(sizeMap[k].count, totalAccounts), 100)]]

\* ----------------------------------------------------- monthly performance
\* parseInt of the date parts the model's dates are made of
Numerals ==
    ("01" :> 1) @@ ("02" :> 2) @@ ("03" :> 3) @@ ("05" :> 5) @@ ("07" :> 7)
    @@ ("08" :> 8) @@ ("09" :> 9) @@ ("10" :> 10) @@ ("11" :> 11)
    @@ ("21" :> 21) @@ ("22" :> 22) @@ ("25" :> 25) @@ ("28" :> 28)
    @@ ("2024" :> 2024) @@ ("2025" :> 2025) @@ ("9" :> 9)

\* mutant: every event starts its month afresh
RowOfFresh(map, key) == [payouts |-> 0, fees |-> 0]

\* map.get(key), after the row of a new key is set to zero
RowOf(map, key) ==
    IF key \in DOMAIN map THEN map[key] ELSE [payouts |-> 0, fees |-> 0]

\* the Map after events.forEach: month key -> {payouts, fees}
RECURSIVE MonthlyMapOf(_)
MonthlyMapOf(es) ==
    IF es = <<>> THEN <<>>
    ELSE LET map == MonthlyMapOf(Front(es))
             e == Last(es)
             key == getMonthKey(e.date)
             row == RowOf(map, key)
             added ==
                 [payouts |-> row.payouts
                                + (IF e.type = "payout" THEN e.amount ELSE 0),
                  fees |-> row.fees
                                + (IF e.type = "fee" THEN e.amount ELSE 0)]
         IN  [k \in (DOMAIN map) \cup {key} |->
                 IF k = key THEN added ELSE map[k]]

monthlyMap == MonthlyMapOf(events)

\* the strings the date parts of the model take, in code-unit order
PartOrder ==
    <<"01", "02", "05", "07", "08", "09", "10", "11", "2024", "2025", "9",
      "n/a", "undefined">>

PartRank(part) == CHOOSE k \in 1..Len(PartOrder) : PartOrder[k] = part

\* a.localeCompare(b) < 0 for two month keys of equal-length years
KeyBefore(a, b) ==
    \/ PartRank(a[1]) < PartRank(b[1])
    \/ a[1] = b[1] /\ PartRank(a[2]) < PartRank(b[2])

\* the keys of a set in localeCompare order
RECURSIVE SortedKeys(_)
SortedKeys(keys) ==
    IF keys = {} THEN <<>>
    ELSE LET first == CHOOSE k \in keys : \A o \in keys \ {k} : KeyBefore(k, o)
         IN  <<first>> \o SortedKeys(keys \ {first})

MonthNames ==
    <<"Jan", "Feb", "Mar", "Apr", "May", "Jun", "Jul", "Aug", "Sep", "Oct",
      "Nov", "Dec">>

\* parseInt(month, 10) - 1, counted from 1; 0 stands for NaN
MonthIndex(month) ==
    IF month \in DOMAIN Numerals THEN Numerals[month] ELSE 0

\* "Mar 25": names[monthIndex] and the year without its first two
\* characters, kept here as the pair of the name and the whole year
monthLabel(monthKey) ==
    <<IF MonthIndex(monthKey[2]) \in 1..Len(MonthNames)
      THEN MonthNames[MonthIndex(monthKey[2])]
      ELSE Undefined,
      monthKey[1]>>

monthlyPerf ==
    LET keys == SortedKeys(DOMAIN monthlyMap)
    IN  [k \in 1..Len(keys) |->
            [month |-> monthLabel(keys[k]),
             payouts |-> monthlyMap[keys[k]].payouts,
             fees |-> -monthlyMap[keys[k]].fees]]

\* ----------------------------------------------------------- PnL history
MonthsPerYear == 12

DaysPerMonth == 31

FirstYear == 2024

\* new Date(dateStr) for "YYYY-MM-DD", and for "YYYY-M-DD" as V8 reads it:
\* a day count that grows with the calendar day (every month given 31
\* days), InvalidDate for anything else
DayNumber(date) ==
    IF Len(date) = 3 /\ \A k \in 1..3 : date[k] \in DOMAIN Numerals
    THEN ((Numerals[date[1]] - FirstYear) * MonthsPerYear + Numerals[date[2]])
            * DaysPerMonth + Numerals[date[3]]
    ELSE InvalidDate

\* the events with the day their date parses to, as the comparator sees them
Dated(es) ==
    [k \in 1..Len(es) |-> [date |-> DayNumber(es[k].date), event |-> es[k]]]

\* payouts add to PnL, fees and purchases subtract
Delta(ev) ==
    IF ev.type = "payout" THEN ev.amount
    ELSE IF ev.type = "fee" \/ ev.type = "purchase" THEN -ev.amount
    ELSE 0

\* acc.length ? acc[acc.length - 1].pnl : 0
LastPnl(acc) == IF Len(acc) # 0 THEN acc[Len(acc)].pnl ELSE 0

\* sorted.reduce((acc, ev) => acc.push({date, pnl: last + delta}), []): the
\* callback applied to the events still to come, acc what it has built
RECURSIVE PnlReduce(_, _)
PnlReduce(rest, acc) ==
    IF rest = <<>> THEN acc
    ELSE PnlReduce(Tail(rest),
                   Append(acc, [date |-> Head(rest).event.date,
                                pnl |-> LastPnl(acc) + Delta(Head(rest).event)]))

\* the histories events.slice().sort(oldest first).reduce(...) can give
pnlHistory ==
    { PnlReduce(sorted, <<>>) :
        sorted \in SortOutcomes(Dated(events), "oldest") }

\* mutant: the oldest-first sort called on events itself, which is rawEvents
\* when every firm is shown
HomeArraysNoSlice(raw, firm) ==
    IF firm = "All"
    THEN { [rawEvents |-> [k \in 1..Len(sorted) |-> sorted[k].event],
            sorted |-> sorted] :
              sorted \in SortOutcomes(Dated(raw), "oldest") }
    ELSE { [rawEvents |-> raw, sorted |-> sorted] :
              sorted \in SortOutcomes(
                  Dated(SelectSeq(raw, LAMBDA e : e.propFirm = firm)),
                  "oldest") }

\* The arrays after a render of Home with the events raw and the firm
\* selected: events is rawEvents itself when every firm is shown and a new
\* array otherwise, events.slice() is a new array, the sort of pnlHistory
\* reorders that one, and rawEvents holds what it held.
HomeArrays(raw, firm) ==
    LET shown == IF firm = "All" THEN raw
                 ELSE SelectSeq(raw, LAMBDA e : e.propFirm = firm)
    IN  { [rawEvents |-> raw, sorted |-> sorted] :
            sorted \in SortOutcomes(Dated(shown), "oldest") }

\* the re-render of Home after a state change
Render(raw, firm) ==
    \E arrays \in HomeArrays(raw, firm) : rawEvents' = arrays.rawEvents

\* --------------------------------------------------------------- CSV import
\* A parsed row holds the cell strings of its four columns. Number(), trim()
\* and toLowerCase() are given on the cell strings the imported files hold.
NumberOf(cell) ==
    IF cell = "100" THEN <<10000>>
    ELSE IF cell = "40" THEN <<4000>>
    ELSE IF cell = "" THEN <<0>>
    ELSE <<>>    \* NaN

Trim(str) ==
    IF str = " 5ERS " THEN "5ERS"
    ELSE IF str = " Fee " THEN "Fee"
    ELSE IF str = " " THEN ""
    ELSE str

ToLowerCase(str) ==
    IF str = "Fee" THEN "fee"
    ELSE IF str = "PAYOUT" THEN "payout"
    ELSE str

CsvRow(date, propFirm, type, amount) ==
    [date |-> date, propFirm |-> propFirm, type |-> type, amount |-> amount]

CsvRows ==
    { CsvRow(<<"2025", "09", "22">>, "FTMO", "PAYOUT", "100"),
      CsvRow(<<"2025", "08", "21">>, " 5ERS ", " Fee ", "40"),
      CsvRow(<<"2025", "09", "09">>, "E8", "payout", ""),
      CsvRow(<<"2025", "09", "09">>, "FTMO", "purchase", "100"),
      CsvRow(<<"2025", "09", "09">>, "FTMO", "fee", "abc"),
      CsvRow(EmptyString, "FTMO", "fee", "40"),
      CsvRow(<<"2025", "09", "09">>, " ", "payout", "40") }

\* the callback of rows.map: <<event>> for a valid row, <<>> for null
ParseRow(row) ==
    LET date == row.date
        propFirm == Trim(row.propFirm)
        typeRaw == ToLowerCase(Trim(row.type))
        amount == NumberOf(row.amount)
    IN  IF date = EmptyString \/ propFirm = "" \/ typeRaw = "" \/ amount = <<>>
        THEN <<>>
        ELSE IF typeRaw # "payout" /\ typeRaw # "fee" THEN <<>>
        ELSE <<Event(date, propFirm, typeRaw, amount[1])>>

\* rows.map(...).filter(Boolean)
RECURSIVE ParseRows(_)
ParseRows(rows) ==
    IF rows = <<>> THEN <<>>
    ELSE ParseRows(Front(rows)) \o ParseRow(Last(rows))

\* what Papa.parse makes of a file: the rows of results.data handed to
\* complete, or a failure to read the file handed to error
CsvFile(rows, outcome) == [rows |-> rows, outcome |-> outcome]

\* mutant: the import goes on with no valid row
NothingParsedIgnored(parsed) == FALSE

\* parsed.length === 0
NothingParsed(parsed) == Len(parsed) = 0

\* mutant: the valid rows are added to the events there are
ImportedEventsAppended(prev, parsed) == prev \o parsed

\* setRawEvents(parsed)
ImportedEvents(prev, parsed) == parsed

\* handleEventsCsvChange: Papa.parse starts to read the chosen file; its
\* callbacks run later. One file is read at a time.
handleEventsCsvChange(file) ==
    /\ parsing = <<>>
    /\ parsing' = <<file>>
    /\ UNCHANGED <<rawEvents, accounts, selectedFirm, consoleLog>>
    /\ UNCHANGED journalVars

\* complete: (results) => { ... }
complete ==
    /\ parsing # <<>>
    /\ parsing[1].outcome = "complete"
    /\ LET parsed == ParseRows(parsing[1].rows)
       IN  IF NothingParsed(parsed)
           THEN /\ consoleLog' = "CSV parsed but no valid rows found"
                /\ rawEvents' = rawEvents
           ELSE /\ consoleLog' = consoleLog
                /\ Render(ImportedEvents(rawEvents, parsed), selectedFirm)
    /\ parsing' = <<>>
    /\ UNCHANGED <<accounts, selectedFirm>>
    /\ UNCHANGED journalVars

\* error: (error) => { console.error(...) }
error ==
    /\ parsing # <<>>
    /\ parsing[1].outcome = "error"
    /\ consoleLog' = "Error parsing CSV"
    /\ parsing' = <<>>
    /\ UNCHANGED <<rawEvents, accounts, selectedFirm>>
    /\ UNCHANGED journalVars

setSelectedFirm(firm) ==
    /\ selectedFirm' = firm
    /\ Render(rawEvents, firm)
    /\ UNCHANGED <<accounts, parsing, consoleLog>>
    /\ UNCHANGED journalVars

\* ----------------------------------------------------------- specifications
\* the journal page mounted over an empty store
JournalInit ==
    /\ trades = <<>>
    /\ editingId = 0
    /\ expandedTradeId = 0
    /\ confirmDelete = <<>>
    /\ nextId = 1
    /\ dateFilter = "ALL"
    /\ instrumentFilter = "ALL"
    /\ resultFilter = "ALL"
    /\ macroFilter = "ALL"
    /\ planFilter = "ALL"
    /\ now \in Clock
    /\ filteredTrades = <<>>
    /\ storage = Stringify(<<>>)
    /\ effectQueue = <<>>
    /\ pendingUpdate = <<>>

DashInit ==
    /\ rawEvents = initialEvents
    /\ accounts = initialAccounts
    /\ selectedFirm = "All"
    /\ parsing = <<>>
    /\ consoleLog = ""

\* the instants a recomputation can see: time does not run backwards
Instants == {n \in Clock : n >= now}

Init == JournalInit /\ DashInit

\* the dashboard page as it opens, the journal left alone
InitDash == JournalInit /\ now = 2568 /\ DashInit

\* the journal with every filter, the clock running
Next ==
    \/ \E v \in DateFilterOptions, n \in Instants : setDateFilter(v, n)
    \/ \E v \in InstrumentFilterOptions, n \in Instants :
          setInstrumentFilter(v, n)
    \/ \E v \in ResultFilterOptions, n \in Instants : setResultFilter(v, n)
    \/ \E v \in MacroFilterOptions, n \in Instants : setMacroFilter(v, n)
    \/ \E v \in PlanFilterOptions, n \in Instants : setPlanFilter(v, n)
    \/ /\ Len(trades) < MaxTrades
       /\ \E form \in FormInputs, n \in Instants : handleSubmit(form, n)
    \/ saveEffect

Spec == Init /\ [][Next]_vars

\* the journal with the result and plan filters, within one instant
NextStats ==
    \/ \E v \in ResultFilterOptions : setResultFilter(v, now)
    \/ \E v \in PlanFilterOptions : setPlanFilter(v, now)
    \/ /\ Len(trades) < MaxStatsTrades
       /\ \E form \in FormInputs : handleSubmit(form, now)
    \/ saveEffect

SpecStats == Init /\ [][NextStats]_vars

\* the journal with forms that differ in date, result and plan flag
NextOrder ==
    \/ \E v \in ResultFilterOptions : setResultFilter(v, now)
    \/ /\ Len(trades) < MaxOrderTrades
       /\ \E form \in OrderInputs : handleSubmit(form, now)
    \/ saveEffect

SpecOrder == Init /\ [][NextOrder]_vars

\* the journal page opened over what an earlier session left in the store,
\* with creating, editing and deleting. A stored trade has a negative
\* identifier and an early creation time, crypto.randomUUID() gives 1, 2, ...
StoredTrade(k) == NewTrade(-k, FormRow(k % 3, (k + 1) % 3, k % 2), k)

\* stored trades whose resultR or riskPercent is null or is not there:
\* loadTrades() returns the parsed array as it is
NonNumericTrades ==
    { [StoredTrade(1) EXCEPT !.resultR = v] : v \in {Null, Absent} }
        \cup { [StoredTrade(1) EXCEPT !.riskPercent = v] :
                  v \in {Null, Absent} }

StoredBlobs ==
    { Blob(kind, <<>>) : kind \in {"absent", "empty", "invalid", "nonarray"} }
        \cup { Stringify([k \in 1..m |-> StoredTrade(k)]) :
                  m \in 0..MaxStoredTrades }
        \cup { Stringify(<<StoredTrade(2), t>>) : t \in NonNumericTrades }

StoreForms == {FormRow(1, 2, 0), FormRow(2, 0, 1)}

\* the first render has committed the load effect and the save effect
InitStore ==
    /\ trades = <<>>
    /\ editingId = 0
    /\ expandedTradeId = 0
    /\ confirmDelete = <<>>
    /\ nextId = 1
    /\ dateFilter = "ALL"
    /\ instrumentFilter = "ALL"
    /\ resultFilter = "ALL"
    /\ macroFilter = "ALL"
    /\ planFilter = "ALL"
    /\ now = 2568
    /\ filteredTrades = <<>>
    /\ storage \in StoredBlobs
    /\ effectQueue = <<Effect("load", <<>>), Effect("save", <<>>)>>
    /\ pendingUpdate = <<>>
    /\ DashInit

NextStore ==
    \/ loadEffect
    \/ saveEffect
    \/ render(now)
    \/ /\ editingId # 0 \/ (Len(trades) < MaxStoreTrades /\ nextId <= MaxNewIds)
       /\ \E form \in StoreForms : handleSubmit(form, now)
    \/ \E k \in 1..Len(filteredTrades) : startEdit(filteredTrades[k].id)
    \/ \E k \in 1..Len(filteredTrades) : toggleExpanded(filteredTrades[k].id)
    \/ \E k \in 1..Len(filteredTrades), confirmed \in BOOLEAN :
          deleteTrade(filteredTrades[k].id, confirmed)
    \/ deleteTradeAnswered(now)

SpecStore == InitStore /\ [][NextStore]_vars

\* the same page where React may run the effects of the mount a second time
\* before the re-render, as it does under StrictMode in a development build
MountEffects == <<Effect("load", <<>>), Effect("save", <<>>)>>

InitMount ==
    /\ trades = <<>>
    /\ editingId = 0
    /\ expandedTradeId = 0
    /\ confirmDelete = <<>>
    /\ nextId = 1
    /\ dateFilter = "ALL"
    /\ instrumentFilter = "ALL"
    /\ resultFilter = "ALL"
    /\ macroFilter = "ALL"
    /\ planFilter = "ALL"
    /\ now = 2568
    /\ filteredTrades = <<>>
    /\ storage \in StoredBlobs
    /\ effectQueue \in {MountEffects, MountEffects \o MountEffects}
    /\ pendingUpdate = <<>>
    /\ DashInit

SpecMount == InitMount /\ [][NextStore]_vars

\* sequences of at most n elements of S
SeqsUpTo(S, n) == UNION { [1..k -> S] : k \in 0..n }

FirmOptions == {"All"} \cup firms

\* the dashboard over any small account list
AccountInputs ==
    { Account("acc", f, 100000, t, st, TRUE) :
        f \in {"FTMO", "5ERS"}, t \in {"evaluation", "funded"},
        st \in {"phase1", "phase2", "funded", "payout", "failed"} }

InitFunnel ==
    /\ JournalInit
    /\ now = 2568
    /\ rawEvents = initialEvents
    /\ accounts \in {initialAccounts} \cup SeqsUpTo(AccountInputs, MaxAccounts)
    /\ selectedFirm = "All"
    /\ parsing = <<>>
    /\ consoleLog = ""

NextFunnel == \E firm \in FirmOptions : setSelectedFirm(firm)

SpecFunnel == InitFunnel /\ [][NextFunnel]_vars

\* the dashboard over account lists whose sizes differ, two of them within
\* the same thousand
AccountSizes == {2500, 3000, 100000}

SizedAccounts ==
    { Account("acc", f, size, t, "phase1", TRUE) :
        f \in {"FTMO", "5ERS"}, size \in AccountSizes,
        t \in {"evaluation", "funded"} }

InitSizes ==
    /\ JournalInit
    /\ now = 2568
    /\ rawEvents = initialEvents
    /\ accounts \in {initialAccounts}
                      \cup SeqsUpTo(SizedAccounts, MaxSizedAccounts)
    /\ selectedFirm = "All"
    /\ parsing = <<>>
    /\ consoleLog = ""

SpecSizes == InitSizes /\ [][NextFunnel]_vars

\* the dashboard over any small event list (the seed list of propData.ts is
\* there to be replaced by the user's own events), with CSV imports
EventDates ==
    << <<"2025", "08", "21">>, <<"2025", "09", "09">>, <<"2025", "09", "22">> >>

EventTypes == <<"payout", "fee", "purchase">>

EventFirms == <<"FTMO", "5ERS">>

EventAmounts == <<4000, 10000>>

\* every pair of date and type, with firm and amount varied across them
EventInputs ==
    { Event(EventDates[d], EventFirms[((d + t) % 2) + 1], EventTypes[t],
            EventAmounts[((d + 2 * t) % 2) + 1]) : d \in 1..3, t \in 1..3 }

InitEvents ==
    /\ JournalInit
    /\ now = 2568
    /\ rawEvents \in {initialEvents} \cup SeqsUpTo(EventInputs, MaxEvents)
    /\ accounts = initialAccounts
    /\ selectedFirm = "All"
    /\ parsing = <<>>
    /\ consoleLog = ""

\* the files of at most n rows out of a set of rows, and the unreadable file
FilesOf(rows, n) ==
    { CsvFile(r, "complete") : r \in SeqsUpTo(rows, n) }
        \cup {CsvFile(<<>>, "error")}

\* rows with cells to trim and to lower-case, and with months not padded
EventRows ==
    { CsvRow(<<"2025", "09", "22">>, "FTMO", "PAYOUT", "100"),
      CsvRow(<<"2025", "08", "21">>, " 5ERS ", " Fee ", "40"),
      CsvRow(<<"2025", "9", "05">>, "FTMO", "payout", "40"),
      CsvRow(<<"2025", "10", "01">>, "FTMO", "fee", "40") }

NextEvents ==
    \/ \E firm \in FirmOptions : setSelectedFirm(firm)
    \/ \E file \in FilesOf(EventRows, MaxRows) : handleEventsCsvChange(file)
    \/ complete
    \/ error

SpecEvents == InitEvents /\ [][NextEvents]_vars

\* the dashboard under imports of files whose rows differ in their dates
HistoryRows ==
    { CsvRow(<<"2025", "09", "22">>, "FTMO", "payout", "100"),
      CsvRow(<<"n/a">>, "FTMO", "fee", "40"),
      CsvRow(<<"2025", "08", "21">>, "5ERS", "payout", "40") }

NextHistory ==
    \/ \E firm \in FirmOptions : setSelectedFirm(firm)
    \/ \E file \in FilesOf(HistoryRows, MaxHistoryRows) :
          handleEventsCsvChange(file)
    \/ complete
    \/ error

SpecHistory == InitDash /\ [][NextHistory]_vars

\* the journal with forms that differ in the risk entered, which the number
\* input lets be zero or negative, and in the plan flag
FormRiskEntries == {-1, 0, 1, 2}

RiskInputs ==
    { [date |-> 100, resultR |-> 0, macroAlignment |-> "With",
       instrument |-> "EURUSD", followedPlan |-> p, riskPercent |-> r] :
          p \in BOOLEAN, r \in FormRiskEntries }

NextRisk ==
    \/ \E v \in PlanFilterOptions : setPlanFilter(v, now)
    \/ /\ Len(trades) < MaxRiskTrades
       /\ \E form \in RiskInputs : handleSubmit(form, now)
    \/ saveEffect

SpecRisk == Init /\ [][NextRisk]_vars

\* both pages with what recomputes their views: trades entered in any order
\* of their dates, the result filter, the firm selection
NextViews ==
    \/ \E v \in ResultFilterOptions : setResultFilter(v, now)
    \/ /\ Len(trades) < MaxViewTrades
       /\ \E form \in OrderInputs : handleSubmit(form, now)
    \/ saveEffect
    \/ \E firm \in FirmOptions : setSelectedFirm(firm)

SpecViews == InitDash /\ [][NextViews]_vars

\* the dashboard under imports of files with valid and invalid rows
NextImport ==
    \/ \E firm \in FirmOptions : setSelectedFirm(firm)
    \/ \E file \in FilesOf(CsvRows, MaxRows) : handleEventsCsvChange(file)
    \/ complete
    \/ error

SpecImport == InitDash /\ [][NextImport]_vars

\* =========================================================================
\* Properties of the journal
\* =========================================================================

Range(s) == { s[i] : i \in 1..Len(s) }

\* position of the trade with identifier id in the stored collection
StoredAt(id) == CHOOSE k \in 1..Len(trades) : trades[k].id = id

DateParses(t) == t.date # InvalidDate

WindowDays == [f \in {"7D", "30D", "90D"} |->
                 IF f = "7D" THEN 7 ELSE IF f = "30D" THEN 30 ELSE 90]

\* what each filter selects; a trade whose date does not parse is left to
\* the other filters
SelectedByDate(t) ==
    \/ dateFilter = "ALL"
    \/ ~DateParses(t)
    \/ t.date * HoursPerDay >= now - WindowDays[dateFilter] * HoursPerDay

SelectedByInstrument(t) ==
    instrumentFilter = "ALL" \/ t.instrument = instrumentFilter

SelectedByResult(t) ==
    \/ resultFilter = "ALL"
    \/ resultFilter = "WINS" /\ t.resultR > 0
    \/ resultFilter = "LOSSES" /\ t.resultR < 0

SelectedByMacro(t) == macroFilter = "ALL" \/ t.macroAlignment = macroFilter

SelectedByPlan(t) ==
    \/ planFilter = "ALL"
    \/ planFilter = "YES" /\ t.followedPlan
    \/ planFilter = "NO" /\ ~t.followedPlan

SelectedByAll(t) ==
    /\ SelectedByDate(t)
    /\ SelectedByInstrument(t)
    /\ SelectedByResult(t)
    /\ SelectedByMacro(t)
    /\ SelectedByPlan(t)

AllFiltersOff ==
    /\ dateFilter = "ALL"
    /\ instrumentFilter = "ALL"
    /\ resultFilter = "ALL"
    /\ macroFilter = "ALL"
    /\ planFilter = "ALL"

\* C1: filteredTrades holds exactly the stored trades that every selected
\* filter selects (each once); with every filter at ALL it has the members
\* of the stored collection.
C1_FilterIsConjunction ==
    /\ Range(filteredTrades) = { t \in Range(trades) : SelectedByAll(t) }
    /\ Len(filteredTrades) =
         Cardinality({ k \in 1..Len(trades) : SelectedByAll(trades[k]) })
    /\ AllFiltersOff =>
         /\ Range(filteredTrades) = Range(trades)
         /\ Len(filteredTrades) = Len(trades)

\* a breakeven trade inside the date window is dropped by LOSSES although
\* the date filter selects it
C1_Witness ==
    /\ dateFilter = "7D"
    /\ resultFilter = "LOSSES"
    /\ Len(trades) = 1
    /\ DateParses(trades[1])
    /\ SelectedByDate(trades[1])
    /\ trades[1].resultR = 0
    /\ filteredTrades = <<>>

\* C2: for a non-empty filtered set, total is the number of filtered trades,
\* winRate is 100 times the share of trades with a positive result, totalR
\* is the sum of the results and avgR is totalR / total; so winRate lies in
\* [0, 100] and avgR times total is totalR.
PositiveResults(ft) == { k \in 1..Len(ft) : ft[k].resultR > 0 }

RECURSIVE SumOfResults(_, _)
SumOfResults(ft, from) ==
    IF from > Len(ft) THEN 0 ELSE ft[from].resultR + SumOfResults(ft, from + 1)

C2_SummaryStats ==
    Len(filteredTrades) > 0 =>
        LET st == stats(filteredTrades)
            wins == Cardinality(PositiveResults(filteredTrades))
        IN  /\ st.total = Len(filteredTrades)
            /\ st.winRate = Rat(100 * wins, st.total)
            /\ st.totalR = SumOfResults(filteredTrades, 1)
            /\ st.avgR = Rat(st.totalR, st.total)
            /\ RatLeq(Zero, st.winRate)
            /\ RatLeq(st.winRate, RatOfInt(100))
            /\ RatTimes(st.avgR, st.total) = RatOfInt(st.totalR)

\* a breakeven trade and a win: half the trades are wins
C2_Witness ==
    /\ Len(filteredTrades) = 2
    /\ \E k \in 1..2 : filteredTrades[k].resultR = 0
    /\ \E k \in 1..2 : filteredTrades[k].resultR > 0
    /\ stats(filteredTrades).winRate = RatOfInt(50)

\* the scenario of C3: two stored trades, +2 with the plan followed and -1
\* with the plan broken, every filter at ALL
TwoTradeScenario ==
    /\ AllFiltersOff
    /\ Len(trades) = 2
    /\ trades[1].resultR = 2 /\ trades[1].followedPlan
    /\ trades[2].resultR = -1 /\ ~trades[2].followedPlan

\* C3 as stated: on the scenario total = 2, winRate = 50, avgR = 0.5,
\* totalR = 0.5, avgYes = 2 and avgNo = -1.
C3_ScenarioAsStated ==
    TwoTradeScenario =>
        /\ stats(filteredTrades).total = 2
        /\ stats(filteredTrades).winRate = RatOfInt(50)
        /\ stats(filteredTrades).avgR = Rat(1, 2)
        /\ RatOfInt(stats(filteredTrades).totalR) = Rat(1, 2)
        /\ planStats(filteredTrades).avgYes = RatOfInt(2)
        /\ planStats(filteredTrades).avgNo = RatOfInt(-1)

\* C3 amended: on the scenario total = 2, winRate = 50, avgR = 0.5,
\* totalR = 1, avgYes = 2 and avgNo = -1.
C3_Scenario ==
    TwoTradeScenario =>
        /\ stats(filteredTrades).total = 2
        /\ stats(filteredTrades).winRate = RatOfInt(50)
        /\ stats(filteredTrades).avgR = Rat(1, 2)
        /\ stats(filteredTrades).totalR = 1
        /\ planStats(filteredTrades).avgYes = RatOfInt(2)
        /\ planStats(filteredTrades).avgNo = RatOfInt(-1)

C3_Witness == TwoTradeScenario /\ Len(filteredTrades) = 2

\* C4: when the filtered set is empty every aggregation gives its neutral
\* value, none of them the NaN of a division by zero, and the equity curve
\* has no points.
C4_EmptyIsNeutral ==
    Len(filteredTrades) = 0 =>
        /\ stats(filteredTrades) =
             [total |-> 0, winRate |-> Zero, avgR |-> Zero, totalR |-> 0]
        /\ macroStats(filteredTrades) =
             [withCount |-> 0, againstCount |-> 0, avgWith |-> Zero,
              avgAgainst |-> Zero]
        /\ planStats(filteredTrades) =
             [yesCount |-> 0, noCount |-> 0, avgYes |-> Zero, avgNo |-> Zero]
        /\ riskStats(filteredTrades) = [avgRisk |-> Zero, maxRisk |-> 0]
        /\ equityData(filteredTrades) = {<<>>}

\* a store that is not empty, every trade of it filtered out
C4_Witness == Len(trades) > 0 /\ Len(filteredTrades) = 0

\* C5: every equity curve has one point per filtered trade, its points in
\* date order oldest to newest, the k-th value the sum of the results of the
\* first k trades in that order, and so its last value equal to totalR.
IsEquityCurveOf(curve, sorted) ==
    /\ Len(curve) = Len(sorted)
    /\ \A k \in 1..Len(sorted) :
          /\ curve[k].date = sorted[k].date
          /\ curve[k].cumR = SumOfResults(SubSeq(sorted, 1, k), 1)

OldestToNewest(s) ==
    \A i, j \in 1..Len(s) :
        (i < j /\ DateParses(s[i]) /\ DateParses(s[j])) => s[i].date <= s[j].date

C5_EquityCurve ==
    \A curve \in equityData(filteredTrades) :
        /\ Len(curve) = Len(filteredTrades)
        /\ \E sorted \in Orderings(filteredTrades) :
              /\ OldestToNewest(sorted)
              /\ IsEquityCurveOf(curve, sorted)
        /\ Len(curve) > 0 =>
              curve[Len(curve)].cumR = stats(filteredTrades).totalR

\* C6: filteredTrades is in date order newest first, and two filtered trades
\* of the same date keep the order they have in the stored collection.
NewestToOldest(s) ==
    \A i, j \in 1..Len(s) :
        (i < j /\ DateParses(s[i]) /\ DateParses(s[j])) => s[i].date >= s[j].date

C6_TableOrder ==
    /\ NewestToOldest(filteredTrades)
    /\ \A i, j \in 1..Len(filteredTrades) :
          (i < j /\ filteredTrades[i].date = filteredTrades[j].date) =>
              StoredAt(filteredTrades[i].id) < StoredAt(filteredTrades[j].id)

\* C7: with a date window selected, a stored trade whose date does not parse
\* is in filteredTrades whenever the other four filters select it.
C7_UnparseableDateKept ==
    \A t \in Range(trades) :
        ( /\ dateFilter # "ALL"
          /\ ~DateParses(t)
          /\ SelectedByInstrument(t)
          /\ SelectedByResult(t)
          /\ SelectedByMacro(t)
          /\ SelectedByPlan(t) ) => t \in Range(filteredTrades)

C7_Witness ==
    /\ dateFilter = "30D"
    /\ \E t \in Range(filteredTrades) : ~DateParses(t)


\* =========================================================================
\* Properties of the dashboard funnel
\* =========================================================================

\* the positions of the evaluation-type accounts of the selected firm
EvaluationsOfFirm ==
    { k \in 1..Len(accounts) :
        /\ selectedFirm = "All" \/ accounts[k].propFirm = selectedFirm
        /\ accounts[k].type = "evaluation" }

\* how many of them stand at one of the given stages
AtStage(stages) ==
    Cardinality({ k \in EvaluationsOfFirm : accounts[k].stage \in stages })

\* 100 * count / N, and 0 when there is no evaluation account
PercentOf(count) ==
    IF Cardinality(EvaluationsOfFirm) = 0 THEN Zero
    ELSE Rat(100 * count, Cardinality(EvaluationsOfFirm))

\* C8: for any account set and firm selection the four funnel rates never
\* increase along the funnel:
\* phase1PassRate >= phase2PassRate >= fundedRate >= payoutRate.
C8_FunnelMonotonic ==
    /\ RatLeq(phase2PassRate, phase1PassRate)
    /\ RatLeq(fundedRate, phase2PassRate)
    /\ RatLeq(payoutRate, fundedRate)

\* a firm is selected, one of its evaluations has passed phase 1 only, and
\* a funded-type account of the firm stands at payout
C8_Witness ==
    /\ selectedFirm # "All"
    /\ phase1PassedCount > phase2PassedCount
    /\ \E k \in 1..Len(filteredAccounts) :
          /\ filteredAccounts[k].type = "funded"
          /\ filteredAccounts[k].stage = "payout"

\* C9: over the N evaluation-type accounts of the selected firm,
\* phase1PassRate = 100 * count(phase2, funded, payout) / N,
\* phase2PassRate = fundedRate = 100 * count(funded, payout) / N,
\* payoutRate = 100 * count(payout) / N, and every rate is 0 when N = 0;
\* the counts run over evaluation-type accounts at the listed stages only,
\* so funded-type accounts and failed accounts add to no numerator.
C9_FunnelRates ==
    /\ phase1PassRate = PercentOf(AtStage({"phase2", "funded", "payout"}))
    /\ phase2PassRate = PercentOf(AtStage({"funded", "payout"}))
    /\ fundedRate = phase2PassRate
    /\ payoutRate = PercentOf(AtStage({"payout"}))
    /\ Cardinality(EvaluationsOfFirm) = 0 =>
          /\ phase1PassRate = Zero
          /\ phase2PassRate = Zero
          /\ fundedRate = Zero
          /\ payoutRate = Zero

\* the selected firm has an evaluation that reached funded, next to a
\* funded-type account at a counted stage or a failed evaluation
C9_Witness ==
    /\ selectedFirm # "All"
    /\ fundedRate # Zero
    /\ \E k \in 1..Len(filteredAccounts) :
          \/ /\ filteredAccounts[k].type = "funded"
             /\ filteredAccounts[k].stage \in {"phase2", "funded", "payout"}
          \/ /\ filteredAccounts[k].type = "evaluation"
             /\ filteredAccounts[k].stage = "failed"

\* =========================================================================
\* Properties of the dashboard totals
\* =========================================================================

\* the payout column and the fee column of the monthly chart, fees as stored
MonthlyPayouts == [k \in 1..Len(monthlyPerf) |-> monthlyPerf[k].payouts]

MonthlyFees == [k \in 1..Len(monthlyPerf) |-> -monthlyPerf[k].fees]

\* C10: for any firm-filtered event set the per-month payout totals add up
\* to totalPayouts and the per-month fee totals add up to totalFees, and
\* every payout or fee event has the month of its date in the chart.
C10_MonthlyTotals ==
    /\ sum(MonthlyPayouts) = totalPayouts
    /\ sum(MonthlyFees) = totalFees
    /\ \A k \in 1..Len(events) :
          events[k].type \in {"payout", "fee"}
              => getMonthKey(events[k].date) \in DOMAIN monthlyMap
    /\ Len(monthlyPerf) = Cardinality(DOMAIN monthlyMap)

\* a firm is selected whose payouts and fees spread over several months,
\* at least one month holding more than one event
C10_Witness ==
    /\ selectedFirm # "All"
    /\ totalPayouts > 0
    /\ totalFees > 0
    /\ Len(monthlyPerf) >= 2
    /\ Len(events) > Len(monthlyPerf)

\* the positions in rawEvents of the selected firm's events of one type
EventsOfType(type) ==
    { k \in 1..Len(rawEvents) :
        /\ selectedFirm = "All" \/ rawEvents[k].propFirm = selectedFirm
        /\ rawEvents[k].type = type }

\* the amounts at a set of positions of rawEvents, added up
RECURSIVE AmountOver(_)
AmountOver(positions) ==
    IF positions = {} THEN 0
    ELSE LET k == CHOOSE k \in positions : TRUE
         IN  rawEvents[k].amount + AmountOver(positions \ {k})

\* one payout of 100 and one fee of 40 are the selected firm's events
PayoutAndFeeScenario ==
    /\ Len(events) = 2
    /\ events[1].type = "payout" /\ events[1].amount = 10000
    /\ events[2].type = "fee" /\ events[2].amount = 4000

\* C11: for any firm-filtered event set totalPayouts is the sum of the
\* amounts of its payout events, totalFees the sum of the amounts of its fee
\* events and currentPnl their difference, so an event of another type
\* (purchase) changes none of them; one payout of 100 and one fee of 40
\* give totalPayouts = 100, totalFees = 40, currentPnl = 60.
C11_Totals ==
    /\ totalPayouts = AmountOver(EventsOfType("payout"))
    /\ totalFees = AmountOver(EventsOfType("fee"))
    /\ currentPnl
          = AmountOver(EventsOfType("payout")) - AmountOver(EventsOfType("fee"))
    /\ PayoutAndFeeScenario =>
          /\ totalPayouts = 10000
          /\ totalFees = 4000
          /\ currentPnl = 6000

\* the scenario, over an event list other than the seed
C11_Witness ==
    /\ PayoutAndFeeScenario
    /\ rawEvents # initialEvents
    /\ currentPnl = 6000

\* what an event moves the PnL by
SignedAmount(ev) ==
    IF ev.type = "payout" THEN ev.amount
    ELSE IF ev.type \in {"fee", "purchase"} THEN -ev.amount
    ELSE 0

\* the date and the PnL step of each event, and of each point of a history
EventSteps(es) ==
    [k \in 1..Len(es) |-> <<es[k].date, SignedAmount(es[k])>>]

HistorySteps(history) ==
    [k \in 1..Len(history) |->
        <<history[k].date,
          history[k].pnl - (IF k = 1 THEN 0 ELSE history[k - 1].pnl)>>]

\* how often x occurs in s
Occurrences(s, x) == Cardinality({ k \in 1..Len(s) : s[k] = x })

\* s and t hold the same elements the same number of times
SameElements(s, t) ==
    /\ Len(s) = Len(t)
    /\ \A k \in 1..Len(s) : Occurrences(s, s[k]) = Occurrences(t, s[k])

\* dates that parse never decrease along the sequence
Chronological(s) ==
    \A i, j \in 1..Len(s) :
        (/\ i < j
         /\ DayNumber(s[i].date) # InvalidDate
         /\ DayNumber(s[j].date) # InvalidDate)
            => DayNumber(s[i].date) <= DayNumber(s[j].date)

\* C12: the PnL history has one point per firm-filtered event, in date
\* order oldest to newest, each point's pnl the previous point's pnl (0
\* before the first) plus the amount of a payout or minus the amount of a
\* fee or purchase.
C12_PnlHistory ==
    \A history \in pnlHistory :
        /\ Len(history) = Len(events)
        /\ Chronological(history)
        /\ SameElements(HistorySteps(history), EventSteps(events))

\* the calendar year and month of an event whose date parses
CalendarMonth(ev) == <<Numerals[ev.date[1]], Numerals[ev.date[2]]>>

\* the calendar year and month an entry of the chart is labelled with
EntryMonth(entry) ==
    <<Numerals[entry.month[2]],
      CHOOSE k \in 1..Len(MonthNames) : MonthNames[k] = entry.month[1]>>

MonthBefore(a, b) == a[1] < b[1] \/ (a[1] = b[1] /\ a[2] < b[2])

\* C13: monthlyPerf has one entry per distinct calendar year-month among the
\* firm-filtered events, in ascending order of year-month, each entry with
\* the month's payout sum and the month's fee sum negated.
C13_MonthlyPerf ==
    LET months == { CalendarMonth(events[k]) : k \in 1..Len(events) }
        InMonth(type, m) ==
            { k \in EventsOfType(type) : CalendarMonth(rawEvents[k]) = m }
    IN  /\ Len(monthlyPerf) = Cardinality(months)
        /\ \A k \in 1..Len(monthlyPerf) :
              /\ monthlyPerf[k].month[1] # Undefined
              /\ EntryMonth(monthlyPerf[k]) \in months
              /\ monthlyPerf[k].payouts
                    = AmountOver(InMonth("payout", EntryMonth(monthlyPerf[k])))
              /\ monthlyPerf[k].fees
                    = -AmountOver(InMonth("fee", EntryMonth(monthlyPerf[k])))
        /\ \A i, j \in 1..Len(monthlyPerf) :
              i < j => MonthBefore(EntryMonth(monthlyPerf[i]),
                                   EntryMonth(monthlyPerf[j]))

\* =========================================================================
\* Properties of the journal store
\* =========================================================================

\* C14: in every reachable state of the journal, after the load from the
\* store and any sequence of create, edit and delete, no two stored trades
\* have the same identifier.
C14_UniqueIds ==
    \A i, j \in 1..Len(trades) : i # j => trades[i].id # trades[j].id

\* a loaded trade and a created trade are stored together, after another
\* created trade has been deleted
C14_Witness ==
    /\ \E k \in 1..Len(trades) : trades[k].id < 0
    /\ Cardinality({ k \in 1..Len(trades) : trades[k].id > 0 }) = 1
    /\ nextId > 2

\* what loadTrades is to return for a blob
ExpectedLoad(blob) == IF blob.kind = "array" THEN blob.value ELSE <<>>

\* the load effect has run and the save effect has not yet written
LoadedNotYetSaved == pendingUpdate # <<>> /\ effectQueue # <<>>

\* C15: loadTrades returns the empty collection when the persisted blob is
\* absent, empty, not valid JSON or not an array, and the persisted array
\* otherwise; this is what the load effect hands to setTrades.
C15_LoadTrades ==
    /\ storage.kind \in {"absent", "empty", "invalid", "nonarray"}
          => loadTrades(storage) = <<>>
    /\ storage.kind = "array" => loadTrades(storage) = storage.value
    /\ LoadedNotYetSaved => pendingUpdate[1] = ExpectedLoad(storage)

\* the load effect has run over a persisted array of trades
C15_Witness ==
    /\ LoadedNotYetSaved
    /\ storage.kind = "array"
    /\ Len(pendingUpdate[1]) = MaxStoredTrades

\* C16: every change of the trade collection commits a save effect for the
\* new collection, and whenever no effect is pending the persisted blob is
\* the serialisation of the collection in memory.
C16_SavedWhenIdle ==
    /\ Idle => storage = Stringify(trades)
    /\ effectQueue # <<>> /\ pendingUpdate = <<>> =>
          effectQueue[Len(effectQueue)] = Effect("save", trades)

\* a collection of a loaded and a created trade is saved, nothing pending
C16_Witness ==
    /\ Idle
    /\ \E k \in 1..Len(trades) : trades[k].id < 0
    /\ \E k \in 1..Len(trades) : trades[k].id > 0
    /\ storage.value = trades

\* =========================================================================
\* Properties of the CSV import
\* =========================================================================

\* a cell that holds a number
IsNumeral(cell) == cell # "" /\ NumberOf(cell) # <<>>

\* a row that is to be kept: date, firm and type not empty, the amount a
\* number, the type payout or fee when lower-cased
RowIsValid(row) ==
    /\ row.date # EmptyString
    /\ Trim(row.propFirm) # ""
    /\ Trim(row.type) # ""
    /\ IsNumeral(row.amount)
    /\ ToLowerCase(Trim(row.type)) \in {"payout", "fee"}

\* the event a kept row stands for
EventOfRow(row) ==
    Event(row.date, Trim(row.propFirm), ToLowerCase(Trim(row.type)),
          NumberOf(row.amount)[1])

\* the events of the rows of a file that satisfy a test, in file order
EventsOfRows(rows, Test(_)) ==
    LET kept == SelectSeq(rows, Test)
    IN  [k \in 1..Len(kept) |-> EventOfRow(kept[k])]

FileRead == parsing # <<>> /\ parsing[1].outcome = "complete"

\* C17: the import keeps exactly the rows of the file with a non-empty date,
\* firm and type, a numeric amount and a type that is payout or fee in lower
\* case, each row judged on its own; a row with an empty or non-numeric
\* amount or with type purchase is dropped, the rows after it are still read.
C17_RowValidation ==
    FileRead => ParseRows(parsing[1].rows) = EventsOfRows(parsing[1].rows, RowIsValid)

\* the rows the import keeps
RowIsKept(row) == ParseRow(row) # <<>>

\* the complete callback runs over a file with a row that is kept
Replaces ==
    /\ FileRead
    /\ parsing' = <<>>
    /\ \E k \in 1..Len(parsing[1].rows) : RowIsKept(parsing[1].rows[k])

ImportFails ==
    /\ parsing # <<>>
    /\ parsing' = <<>>
    /\ \/ parsing[1].outcome = "error"
       \/ \A k \in 1..Len(parsing[1].rows) : ~RowIsKept(parsing[1].rows[k])

IsFiniteNumber(v) == v \notin {Null, Absent, NotANumber}

C20_FiniteAggregates ==
    LET st == stats(filteredTrades)
        macro == macroStats(filteredTrades)
        plan == planStats(filteredTrades)
        risk == riskStats(filteredTrades)
    IN  /\ RatIsFinite(st.winRate)
        /\ RatIsFinite(st.avgR)
        /\ IsFiniteNumber(st.totalR)
        /\ RatIsFinite(macro.avgWith)
        /\ RatIsFinite(macro.avgAgainst)
        /\ RatIsFinite(plan.avgYes)
        /\ RatIsFinite(plan.avgNo)
        /\ RatIsFinite(risk.avgRisk)
        /\ IsFiniteNumber(risk.maxRisk)
        /\ \A points \in equityData(filteredTrades) :
              \A k \in 1..Len(points) : IsFiniteNumber(points[k].cumR)

\* C21: a step that only recomputes the views (a filter of the journal or the
\* firm selection of the dashboard changes) leaves the trades and the raw
\* events as they were, in membership and in order.
ViewStep ==
    \/ <<dateFilter, instrumentFilter, resultFilter, macroFilter, planFilter>>'
          # <<dateFilter, instrumentFilter, resultFilter, macroFilter,
              planFilter>>
    \/ selectedFirm' # selectedFirm

C21_ViewsKeepCollections ==
    [][ViewStep => trades' = trades /\ rawEvents' = rawEvents]_vars

\* two trades stored oldest first and shown newest first under a result
\* filter, the dashboard showing one firm of the seed events
C21_Witness ==
    /\ Len(trades) = 2
    /\ trades[1].date # InvalidDate
    /\ trades[1].date < trades[2].date
    /\ resultFilter # "ALL"
    /\ filteredTrades = <<trades[2], trades[1]>>
    /\ selectedFirm # "All"
    /\ rawEvents = initialEvents

\* C22: withCount and avgWith are the number and the mean result of the
\* filtered trades aligned With, againstCount and avgAgainst those of the
\* trades aligned Against, a Neutral trade in neither; yesCount and avgYes are
\* those of the trades with the plan followed, noCount and avgNo those of the
\* others; an empty group has count 0 and average 0, and yesCount + noCount
\* is the number of filtered trades.
RECURSIVE SumOver(_, _)
SumOver(ft, group) ==
    IF group = {} THEN 0
    ELSE LET k == CHOOSE i \in group : TRUE
         IN  ft[k].resultR + SumOver(ft, group \ {k})

MeanOver(ft, group) ==
    IF group = {} THEN Zero ELSE Rat(SumOver(ft, group), Cardinality(group))

Aligned(ft, alignment) ==
    { k \in 1..Len(ft) : ft[k].macroAlignment = alignment }

PlanGroup(ft, followed) == { k \in 1..Len(ft) : ft[k].followedPlan = followed }

C22_GroupStats ==
    LET ft == filteredTrades
        macro == macroStats(ft)
        plan == planStats(ft)
    IN  /\ macro.withCount = Cardinality(Aligned(ft, "With"))
        /\ macro.avgWith = MeanOver(ft, Aligned(ft, "With"))
        /\ macro.againstCount = Cardinality(Aligned(ft, "Against"))
        /\ macro.avgAgainst = MeanOver(ft, Aligned(ft, "Against"))
        /\ macro.withCount + macro.againstCount
              = Len(ft) - Cardinality(Aligned(ft, "Neutral"))
        /\ plan.yesCount = Cardinality(PlanGroup(ft, TRUE))
        /\ plan.avgYes = MeanOver(ft, PlanGroup(ft, TRUE))
        /\ plan.noCount = Cardinality(PlanGroup(ft, FALSE))
        /\ plan.avgNo = MeanOver(ft, PlanGroup(ft, FALSE))
        /\ plan.yesCount + plan.noCount = Len(ft)

\* a Neutral trade and a With trade, both with the plan followed: the
\* Against group and the broke-plan group are empty
C22_Witness ==
    /\ Len(filteredTrades) = 2
    /\ Cardinality(Aligned(filteredTrades, "Neutral")) = 1
    /\ macroStats(filteredTrades).withCount = 1
    /\ macroStats(filteredTrades).avgAgainst = Zero
    /\ planStats(filteredTrades).yesCount = 2
    /\ planStats(filteredTrades).avgNo = Zero

\* C23: over a filtered set that is not empty avgRisk is the mean of
\* riskPercent and maxRisk the greatest riskPercent, so maxRisk is the
\* riskPercent of a filtered trade and avgRisk is at most maxRisk.
RECURSIVE RiskOver(_, _)
RiskOver(ft, from) ==
    IF from > Len(ft) THEN 0 ELSE ft[from].riskPercent + RiskOver(ft, from + 1)

IsGreatestRisk(ft, r) ==
    /\ \E k \in 1..Len(ft) : ft[k].riskPercent = r
    /\ \A k \in 1..Len(ft) : ft[k].riskPercent <= r

C23_RiskStats ==
    Len(filteredTrades) > 0 =>
        LET risk == riskStats(filteredTrades)
        IN  /\ risk.avgRisk = Rat(RiskOver(filteredTrades, 1),
                                  Len(filteredTrades))
            /\ IsGreatestRisk(filteredTrades, risk.maxRisk)
            /\ RatLeq(risk.avgRisk, RatOfInt(risk.maxRisk))

\* =========================================================================
\* Properties of the account size distribution
\* =========================================================================
\* the positions in accounts of the selected firm's evaluation accounts
EvaluationsShown ==
    { k \in 1..Len(accounts) :
        /\ selectedFirm = "All" \/ accounts[k].propFirm = selectedFirm
        /\ accounts[k].type = "evaluation" }

\* Math.round(size / 1000)
RoundedThousands(size) == (size + 500) \div 1000

\* the distribution, Label(_) giving the label of a size: one entry per
\* label, its count the number of evaluation accounts of that label, its
\* percentage 100 * count / total, the counts adding up to the total
RECURSIVE CountSum(_)
CountSum(entries) ==
    IF entries = <<>> THEN 0
    ELSE CountSum(Front(entries)) + Last(entries).count

IsDistributionBy(entries, Label(_)) ==
    LET labels == { Label(accounts[k].size) : k \in EvaluationsShown }
        total == Cardinality(EvaluationsShown)
    IN  /\ Len(entries) = Cardinality(labels)
        /\ \A label \in labels :
              \E k \in 1..Len(entries) :
                  /\ entries[k].name = label
                  /\ entries[k].count =
                        Cardinality({ i \in EvaluationsShown :
                                        Label(accounts[i].size) = label })
                  /\ entries[k].percentage = Rat(100 * entries[k].count, total)
        /\ CountSum(entries) = total

IdsOf(ts) == { ts[k].id : k \in 1..Len(ts) }

\* the fields of a trade that the form fills
FormOf(t) ==
    [date |-> t.date, resultR |-> t.resultR,
     macroAlignment |-> t.macroAlignment, instrument |-> t.instrument,
     followedPlan |-> t.followedPlan, riskPercent |-> t.riskPercent]

\* a submit in edit mode: the page at rest leaves edit mode and the edited
\* trade is still there
EditSubmitted ==
    Idle /\ editingId # 0 /\ editingId' = 0 /\ editingId \in IdsOf(trades')

\* a submit outside edit mode: a new identifier is drawn
CreateSubmitted == editingId = 0 /\ nextId' # nextId

\* C25: a submit in edit mode gives the edited trade the fields of the form
\* and keeps its identifier and creation time, the number of trades, their
\* order and every other trade; a submit outside edit mode puts one trade with
\* a fresh identifier and the creation time of the submit at the front and
\* keeps the trades there were.
C25_Submit ==
    [][ /\ EditSubmitted =>
             /\ Len(trades') = Len(trades)
             /\ \A k \in 1..Len(trades) :
                   IF trades[k].id = editingId
                   THEN /\ trades'[k].id = trades[k].id
                        /\ trades'[k].createdAt = trades[k].createdAt
                        /\ FormOf(trades'[k]) \in StoreForms
                   ELSE trades'[k] = trades[k]
        /\ CreateSubmitted =>
             /\ Len(trades') = Len(trades) + 1
             /\ Tail(trades') = trades
             /\ trades'[1].id \notin IdsOf(trades)
             /\ trades'[1].createdAt = now'
             /\ FormOf(trades'[1]) \in StoreForms ]_vars

\* a trade created in this session in front of a stored trade that was
\* edited: it has the form's fields and its own identifier and creation time
C25_Witness ==
    /\ Len(trades) = 2
    /\ trades[1].id > 0
    /\ trades[1].createdAt = now
    /\ trades[2].id < 0
    /\ trades[2] # StoredTrade(-trades[2].id)
    /\ FormOf(trades[2]) \in StoreForms
    /\ trades[2].createdAt = StoredTrade(-trades[2].id).createdAt
    /\ editingId = 0

\* C26: when the delete prompt is declined the trades, the edit mode and the
\* expanded row stay as they are; when it is confirmed the trade of that
\* identifier, and no other, leaves the collection and the others keep their
\* order; and a trade leaves the collection in no other step.
PromptAnswered(answer) ==
    confirmDelete # <<>> /\ confirmDelete[1].confirmDelete = answer

C26_DeleteOnConfirm ==
    [][ /\ PromptAnswered(FALSE) =>
             /\ trades' = trades
             /\ editingId' = editingId
             /\ expandedTradeId' = expandedTradeId
        /\ PromptAnswered(TRUE) =>
             /\ Len(trades') = Len(trades) - 1
             /\ trades' = SelectSeq(trades,
                                    LAMBDA t : t.id # confirmDelete[1].id)
        /\ IdsOf(trades) \ IdsOf(trades') # {} => PromptAnswered(TRUE) ]_vars

\* of the two stored trades the first was deleted and the second is left,
\* and the store holds the collection again
C26_Witness ==
    /\ nextId = 1
    /\ IdsOf(trades) = {-2}
    /\ Len(trades) = 1
    /\ Idle
    /\ storage = Stringify(trades)

\* C27: while the page initialises (the loaded trades wait for the re-render)
\* no step takes a trade out of the persisted blob, and the re-render that
\* ends the initialisation puts into memory the collection that was
\* persisted when the page opened, which is what the first load read.
Persisted == loadTrades(storage)

TradesIn(ts) == { ts[k] : k \in 1..Len(ts) }

C27_MountKeepsTrades ==
    [][ pendingUpdate # <<>> =>
          /\ TradesIn(Persisted) \subseteq TradesIn(Persisted')
          /\ pendingUpdate' = <<>> => trades' = pendingUpdate[1] ]_vars

\* C28: editingId is null or the identifier of a trade of the collection;
\* a confirmed delete of the trade being edited ends edit mode and that of
\* another trade leaves editingId as it is; every submit ends with editingId
\* null.
EditingIdIsValid == editingId = 0 \/ editingId \in IdsOf(trades)

\* a submit: a handler of the page at rest that sets the trades
Submitted == Idle /\ effectQueue' # <<>>

C28_EditingId ==
    /\ []EditingIdIsValid
    /\ [][ /\ PromptAnswered(TRUE) =>
                editingId' = IF confirmDelete[1].id = editingId THEN 0
                             ELSE editingId
           /\ Submitted => editingId' = 0 ]_vars

\* of the two stored trades the second is being edited and the first has
\* been deleted
C28_Witness ==
    /\ nextId = 1
    /\ Len(trades) = 1
    /\ trades[1].id = -2
    /\ editingId = -2
    /\ Idle
    /\ storage = Stringify(trades)

\* =========================================================================
\* Properties of the firm selection
\* =========================================================================
\* C29: after any firm selections and CSV imports the selected firm is "All"
\* or one of the firms of the current events and accounts, the options the
\* selector has.
C29_SelectedFirmListed == selectedFirm \in FirmOptions

====
